---- MODULE Spec2Model ----
(***************************************************************************)
(* A model of the event bus of src/src/event_bus.rs: an unbounded FIFO     *)
(* channel, one dispatch loop (EventBus::handle) that takes one semaphore  *)
(* permit per event and spawns one dispatch task per event, an add-only    *)
(* subscriber registry, and four metrics.  Every atomic step of the code   *)
(* (a channel operation, a semaphore operation, one metric update, one     *)
(* registry operation, one handler await) is one action.                   *)
(***************************************************************************)
EXTENDS Integers, Sequences, FiniteSets

\* ---------------------------------------------------------------- bounds
MaxCalls == 4       \* calls of publish and subscribe that are let through
MaxLimit == 2       \* largest concurrency_limit handed to EventBus::new

\* Threads that hold a clone of the EventBus handle and call its methods.
\* They are interchangeable, so the model keeps count of how many of them
\* stand at each point of publish and subscribe, not of which.
Callers == {"c1", "c2"}

Events == 1..MaxCalls
NoEvent == 0
SubIds == 0..(MaxCalls - 1)

VARIABLES
    limit,        \* the concurrency_limit argument of EventBus::new
    permits,      \* permits available in Inner::concurrency_limit
    queue,        \* the async_channel: events sent and not yet received
    loopPc,       \* where EventBus::handle is: recv, acquire, register, exited
    loopMsg,      \* the message the loop has received and not yet handed over
    subscribers,  \* Inner::subscribers: the keys of the map; each key's value is
                  \* the listener registered under it, which the model names by its key
    key_counter,  \* Inner::key_counter
    inPubPending,   \* callers in publish between the send and lines 163-165
    inPubPublished, \* callers in publish between lines 163-165 and 166-169
    inSubInsert,    \* the idx of each caller in subscribe between lines 154 and 155
    droppedHandles, \* callers that have dropped their handle
    nextEvent,    \* the identity of the next event to be sent (events are numbered in send order)
    task,         \* per event: its dispatch task (pc, snapshot, rest of the iteration, current handler)
    pending,      \* GAUGE_EVENT_BUS_QUEUE_PENDING_SIZE
    handling,     \* GAUGE_EVENT_BUS_QUEUE_HANDLING_SIZE
    published,    \* TOTAL_EVENT_BUS_EVENT_PUBLISHED_SIZE
    handled,      \* TOTAL_EVENT_BUS_EVENT_HANDLED_SIZE
    flag,         \* per subscriber id: how many on_event calls have completed
    dequeued,     \* history: the events in the order the loop received them
    launched,     \* history: the events in the order their dispatch tasks were spawned
    regAt,        \* history: per event, the registry's ids when it was sent
    invoked,      \* history: per event, the ids whose on_event was called for it
    returnedOk,   \* history: publish calls that returned Ok
    returnedErr,  \* history: publish calls that returned Err
    releases      \* history: per event, how often the permit taken for it was given back

vars == <<limit, permits, queue, loopPc, loopMsg, subscribers, key_counter,
          inPubPending, inPubPublished, inSubInsert, droppedHandles,
          nextEvent, task,
          pending, handling, published, handled, flag,
          dequeued, launched, regAt, invoked,
          returnedOk, returnedErr, releases>>

callerVars  == <<inPubPending, inPubPublished, inSubInsert, droppedHandles>>
metricVars  == <<pending, handling, published, handled>>
loopVars    == <<loopPc, loopMsg>>
orderVars   == <<dequeued, launched>>
resultVars  == <<returnedOk, returnedErr>>
historyVars == <<orderVars, regAt, invoked, resultVars, releases>>
registryVars == <<subscribers, key_counter>>

\* ------------------------------------------------------------- helpers
\* The calls of publish and subscribe made so far.
Calls == (nextEvent - 1) + key_counter

NoTask == [pc |-> "none", snap |-> {}, rem |-> {}, cur |-> -1]

LivePcs == {"start", "dec_pending", "snapshot", "iter", "await",
            "inc_handled", "release"}

\* The dispatch tasks that were spawned and have not ended: each owns the
\* OwnedSemaphorePermit moved into its future, and a clone of the bus.
LiveTasks == {e \in Events : task[e].pc \in LivePcs}

\* 1 while the loop owns a permit it has acquired and not yet moved into a task.
LoopHolds == IF loopPc = "register" THEN 1 ELSE 0

\* Strong references to Inner: the callers' handles, the clone the loop
\* owns, and the clone each live dispatch task owns.
IdleCallers ==
    Cardinality(Callers) - inPubPending - inPubPublished
  - Cardinality(inSubInsert) - droppedHandles

ArcStrong ==
    (Cardinality(Callers) - droppedHandles)
  + (IF loopPc # "exited" THEN 1 ELSE 0)
  + Cardinality(LiveTasks)

\* The channel is closed when its last Sender or Receiver is dropped; both
\* are fields of Inner, so that is when Inner is dropped.
IsClosed == ArcStrong = 0

\* --------------------------------------------------------------- Init
\* A limiter built one permit too large (Semaphore::new(concurrency_limit + 1)).
InitExtraPermit ==
    /\ limit \in 0..MaxLimit
    /\ permits = limit + 1
    /\ queue = <<>>
    /\ loopPc = "recv"
    /\ loopMsg = NoEvent
    /\ subscribers = {}
    /\ key_counter = 0
    /\ inPubPending = 0
    /\ inPubPublished = 0
    /\ inSubInsert = {}
    /\ droppedHandles = 0
    /\ nextEvent = 1
    /\ task = [e \in Events |-> NoTask]
    /\ pending = 0
    /\ handling = 0
    /\ published = 0
    /\ handled = 0
    /\ flag = [s \in SubIds |-> 0]
    /\ dequeued = <<>>
    /\ launched = <<>>
    /\ regAt = [e \in Events |-> {}]
    /\ invoked = [e \in Events |-> {}]
    /\ returnedOk = 0
    /\ returnedErr = 0
    /\ releases = [e \in Events |-> 0]

\* The state EventBus::new returns in: an empty channel, a semaphore of
\* concurrency_limit permits, an empty registry, the loop spawned.
Init ==
    /\ limit \in 0..MaxLimit
    /\ permits = limit
    /\ queue = <<>>
    /\ loopPc = "recv"
    /\ loopMsg = NoEvent
    /\ subscribers = {}
    /\ key_counter = 0
    /\ inPubPending = 0
    /\ inPubPublished = 0
    /\ inSubInsert = {}
    /\ droppedHandles = 0
    /\ nextEvent = 1
    /\ task = [e \in Events |-> NoTask]
    /\ pending = 0
    /\ handling = 0
    /\ published = 0
    /\ handled = 0
    /\ flag = [s \in SubIds |-> 0]
    /\ dequeued = <<>>
    /\ launched = <<>>
    /\ regAt = [e \in Events |-> {}]
    /\ invoked = [e \in Events |-> {}]
    /\ returnedOk = 0
    /\ returnedErr = 0
    /\ releases = [e \in Events |-> 0]

\* ------------------------------------------------------------ publish
\* A publish that fails fast when the limiter has no permit left
\* (a try_acquire in front of the send).
PublishSendFailFast ==
    /\ IdleCallers > 0
    /\ Calls < MaxCalls
    /\ IF IsClosed \/ permits = 0
       THEN /\ returnedErr' = returnedErr + 1
            /\ UNCHANGED <<queue, nextEvent, regAt, inPubPending>>
       ELSE /\ queue' = Append(queue, nextEvent)
            /\ regAt' = [regAt EXCEPT ![nextEvent] = subscribers]
            /\ nextEvent' = nextEvent + 1
            /\ inPubPending' = inPubPending + 1
            /\ UNCHANGED returnedErr
    /\ UNCHANGED <<limit, permits, loopVars, registryVars, inPubPublished,
                   inSubInsert, droppedHandles, task, metricVars, flag,
                   orderVars, invoked, returnedOk, releases>>

\* A publish that takes part in the limiter: it sends only while a permit
\* is available.
PublishSendLimited ==
    /\ IdleCallers > 0
    /\ Calls < MaxCalls
    /\ permits > 0
    /\ queue' = Append(queue, nextEvent)
    /\ regAt' = [regAt EXCEPT ![nextEvent] = subscribers]
    /\ nextEvent' = nextEvent + 1
    /\ inPubPending' = inPubPending + 1
    /\ UNCHANGED <<limit, permits, loopVars, registryVars, inPubPublished,
                   inSubInsert, droppedHandles, task, metricVars, flag,
                   orderVars, invoked, resultVars, releases>>

\* EventBus::publish, line 161: queue_send.send(event).await?  The channel is
\* unbounded, so send never waits; it fails only on a closed channel, and the
\* `?` then returns the error before any metric is touched.
PublishSend ==
    /\ IdleCallers > 0
    /\ Calls < MaxCalls
    /\ IF IsClosed
       THEN /\ returnedErr' = returnedErr + 1
            /\ UNCHANGED <<queue, nextEvent, regAt, inPubPending>>
       ELSE /\ queue' = Append(queue, nextEvent)
            /\ regAt' = [regAt EXCEPT ![nextEvent] = subscribers]
            /\ nextEvent' = nextEvent + 1
            /\ inPubPending' = inPubPending + 1
            /\ UNCHANGED returnedErr
    /\ UNCHANGED <<limit, permits, loopVars, registryVars, inPubPublished,
                   inSubInsert, droppedHandles, task, metricVars, flag,
                   orderVars, invoked, returnedOk, releases>>

\* EventBus::publish, lines 163-165: the pending gauge goes up.
PublishIncPending ==
    /\ inPubPending > 0
    /\ pending' = pending + 1
    /\ inPubPending' = inPubPending - 1
    /\ inPubPublished' = inPubPublished + 1
    /\ UNCHANGED <<limit, permits, queue, loopVars, registryVars, inSubInsert,
                   droppedHandles, nextEvent, task, handling, published,
                   handled, flag, historyVars>>

\* EventBus::publish, lines 166-169: the published counter goes up, Ok(()).
PublishIncPublished ==
    /\ inPubPublished > 0
    /\ published' = published + 1
    /\ returnedOk' = returnedOk + 1
    /\ inPubPublished' = inPubPublished - 1
    /\ UNCHANGED <<limit, permits, queue, loopVars, registryVars, inPubPending,
                   inSubInsert, droppedHandles, nextEvent, task, pending,
                   handling, handled, flag, orderVars, regAt, invoked,
                   returnedErr, releases>>

\* ---------------------------------------------------------- subscribe
\* An id taken from the registry's size (subscribers.len()) instead of the
\* counter's fetch_add: two subscribes under way at once get the same id.
SubscribeIdFromLen ==
    /\ IdleCallers > 0
    /\ Calls < MaxCalls
    /\ inSubInsert' = inSubInsert \cup {Cardinality(subscribers)}
    /\ key_counter' = key_counter + 1
    /\ UNCHANGED <<limit, permits, queue, loopVars, subscribers, inPubPending,
                   inPubPublished, droppedHandles, nextEvent, task, metricVars,
                   flag, historyVars>>

\* EventBus::subscribe, line 154: key_counter.fetch_add(1, SeqCst).
SubscribeFetchAdd ==
    /\ IdleCallers > 0
    /\ Calls < MaxCalls
    /\ inSubInsert' = inSubInsert \cup {key_counter}
    /\ key_counter' = key_counter + 1
    /\ UNCHANGED <<limit, permits, queue, loopVars, subscribers, inPubPending,
                   inPubPublished, droppedHandles, nextEvent, task, metricVars,
                   flag, historyVars>>

\* EventBus::subscribe, lines 155-157: subscribers.insert(idx, listener).
SubscribeInsert(idx) ==
    /\ idx \in inSubInsert
    /\ subscribers' = subscribers \cup {idx}
    /\ inSubInsert' = inSubInsert \ {idx}
    /\ UNCHANGED <<limit, permits, queue, loopVars, key_counter, inPubPending,
                   inPubPublished, droppedHandles, nextEvent, task, metricVars,
                   flag, historyVars>>

\* A caller drops its clone of the EventBus handle (#[derive(Clone)], line 43).
DropHandle ==
    /\ IdleCallers > 0
    /\ droppedHandles' = droppedHandles + 1
    /\ UNCHANGED <<limit, permits, queue, loopVars, registryVars, inPubPending,
                   inPubPublished, inSubInsert, nextEvent, task, metricVars,
                   flag, historyVars>>

\* ------------------------------------------------------ dispatch loop
\* A recv that yields the newest event instead of the oldest.
LoopRecvNewest ==
    /\ loopPc = "recv"
    /\ queue # <<>>
    /\ loopMsg' = queue[Len(queue)]
    /\ queue' = SubSeq(queue, 1, Len(queue) - 1)
    /\ dequeued' = Append(dequeued, queue[Len(queue)])
    /\ loopPc' = "acquire"
    /\ UNCHANGED <<limit, permits, registryVars, callerVars, nextEvent, task,
                   metricVars, flag, launched, regAt, invoked, resultVars,
                   releases>>

\* A recv that empties the channel and keeps only the oldest event (a drain
\* of the receiver in front of the acquire).
LoopRecvDrain ==
    /\ loopPc = "recv"
    /\ queue # <<>>
    /\ loopMsg' = Head(queue)
    /\ queue' = <<>>
    /\ dequeued' = Append(dequeued, Head(queue))
    /\ loopPc' = "acquire"
    /\ UNCHANGED <<limit, permits, registryVars, callerVars, nextEvent, task,
                   metricVars, flag, launched, regAt, invoked, resultVars,
                   releases>>

\* EventBus::handle, lines 99-105: queue_recv.recv().await.  It yields the
\* oldest event; on an empty channel it waits, and returns Err (which ends
\* the `while let`) only when the channel is closed.
LoopRecv ==
    /\ loopPc = "recv"
    /\ IF queue # <<>>
       THEN /\ loopMsg' = Head(queue)
            /\ queue' = Tail(queue)
            /\ dequeued' = Append(dequeued, Head(queue))
            /\ loopPc' = "acquire"
       ELSE /\ IsClosed
            /\ loopPc' = "exited"
            /\ UNCHANGED <<loopMsg, queue, dequeued>>
    /\ UNCHANGED <<limit, permits, registryVars, callerVars, nextEvent, task,
                   metricVars, flag, launched, regAt, invoked, resultVars,
                   releases>>

\* An acquire that goes on without a permit when none is available
\* (try_acquire_owned with its error ignored).
LoopAcquireNoWait ==
    /\ loopPc = "acquire"
    /\ permits' = IF permits > 0 THEN permits - 1 ELSE permits
    /\ loopPc' = "register"
    /\ UNCHANGED <<limit, queue, loopMsg, registryVars, callerVars, nextEvent,
                   task, metricVars, flag, historyVars>>

\* EventBus::handle, lines 106-113: concurrency_limit.acquire_owned().await
\* waits until a permit is available and takes it.
LoopAcquire ==
    /\ loopPc = "acquire"
    /\ permits > 0
    /\ permits' = permits - 1
    /\ loopPc' = "register"
    /\ UNCHANGED <<limit, queue, loopMsg, registryVars, callerVars, nextEvent,
                   task, metricVars, flag, historyVars>>

\* A permit that is not moved into the spawned future: it is dropped at the
\* end of the loop's iteration, while the task it was taken for still runs.
LoopSpawnDropsPermit ==
    /\ loopPc = "register"
    /\ task' = [task EXCEPT ![loopMsg] = [NoTask EXCEPT !.pc = "start"]]
    /\ launched' = Append(launched, loopMsg)
    /\ permits' = permits + 1
    /\ loopMsg' = NoEvent
    /\ loopPc' = "recv"
    /\ UNCHANGED <<limit, queue, registryVars, callerVars, nextEvent,
                   metricVars, flag, dequeued, regAt, invoked, resultVars,
                   releases>>

\* EventBus::handle, lines 115-124 and 149: after the await-tree registration
\* the future, owning the message, the permit and a clone of the bus, is
\* spawned; the loop goes back to recv.
LoopSpawn ==
    /\ loopPc = "register"
    /\ task' = [task EXCEPT ![loopMsg] = [NoTask EXCEPT !.pc = "start"]]
    /\ launched' = Append(launched, loopMsg)
    /\ loopMsg' = NoEvent
    /\ loopPc' = "recv"
    /\ UNCHANGED <<limit, permits, queue, registryVars, callerVars, nextEvent,
                   metricVars, flag, dequeued, regAt, invoked, resultVars,
                   releases>>

\* ------------------------------------------------------ dispatch task
\* EventBus::handle, lines 125-130: the timer starts, the handling gauge goes up.
TaskIncHandling(e) ==
    /\ task[e].pc = "start"
    /\ handling' = handling + 1
    /\ task' = [task EXCEPT ![e].pc = "dec_pending"]
    /\ UNCHANGED <<limit, permits, queue, loopVars, registryVars, callerVars,
                   nextEvent, pending, published, handled, flag, historyVars>>

\* EventBus::handle, lines 131-133: the pending gauge goes down.
TaskDecPending(e) ==
    /\ task[e].pc = "dec_pending"
    /\ pending' = pending - 1
    /\ task' = [task EXCEPT ![e].pc = "snapshot"]
    /\ UNCHANGED <<limit, permits, queue, loopVars, registryVars, callerVars,
                   nextEvent, handling, published, handled, flag, historyVars>>

\* A snapshot that is taken once and reused: every task but the first
\* iterates the snapshot of the event before it.
TaskSnapshotCached(e) ==
    /\ task[e].pc = "snapshot"
    /\ LET snap == IF e > 1 /\ task[e - 1].pc \notin {"none", "start", "dec_pending", "snapshot"}
                   THEN task[e - 1].snap
                   ELSE subscribers
       IN task' = [task EXCEPT ![e].pc = "iter", ![e].snap = snap, ![e].rem = snap]
    /\ UNCHANGED <<limit, permits, queue, loopVars, registryVars, callerVars,
                   nextEvent, metricVars, flag, historyVars>>

\* A snapshot taken when the event was sent (the registry cloned into the
\* message by publish) instead of by the dispatch task.
TaskSnapshotAtPublish(e) ==
    /\ task[e].pc = "snapshot"
    /\ task' = [task EXCEPT ![e].pc = "iter",
                            ![e].snap = regAt[e],
                            ![e].rem = regAt[e]]
    /\ UNCHANGED <<limit, permits, queue, loopVars, registryVars, callerVars,
                   nextEvent, metricVars, flag, historyVars>>

\* EventBus::handle, line 135: subscribers.clone().into_read_only().
TaskSnapshot(e) ==
    /\ task[e].pc = "snapshot"
    /\ task' = [task EXCEPT ![e].pc = "iter",
                            ![e].snap = subscribers,
                            ![e].rem = subscribers]
    /\ UNCHANGED <<limit, permits, queue, loopVars, registryVars, callerVars,
                   nextEvent, metricVars, flag, historyVars>>

\* EventBus::handle, lines 136-137: the next subscriber of the snapshot (the
\* map's iteration order is not specified) has on_event called and awaited.
HandlerInvoke(e, s) ==
    /\ task[e].pc = "iter"
    /\ s \in task[e].rem
    /\ task' = [task EXCEPT ![e].pc = "await", ![e].cur = s]
    /\ invoked' = [invoked EXCEPT ![e] = @ \cup {s}]
    /\ UNCHANGED <<limit, permits, queue, loopVars, registryVars, callerVars,
                   nextEvent, metricVars, flag, orderVars, regAt, resultVars,
                   releases>>

\* Subscriber::on_event returns (test::SimpleCallback, lines 198-201, has
\* then added 1 to its flag); the for loop of line 136 goes on.  A handler
\* that has not returned yet is a task that stays in "await".
HandlerDone(e) ==
    /\ task[e].pc = "await"
    /\ flag' = [flag EXCEPT ![task[e].cur] = @ + 1]
    /\ task' = [task EXCEPT ![e].pc = "iter",
                            ![e].rem = @ \ {task[e].cur},
                            ![e].cur = -1]
    /\ UNCHANGED <<limit, permits, queue, loopVars, registryVars, callerVars,
                   nextEvent, metricVars, historyVars>>

\* A panic that takes the permit with it (a permit forgotten, or given back
\* by hand at line 148 only).
HandlerPanicLeak(e) ==
    /\ task[e].pc = "await"
    /\ task' = [task EXCEPT ![e].pc = "dead"]
    /\ UNCHANGED <<limit, permits, queue, loopVars, registryVars, callerVars,
                   nextEvent, metricVars, flag, historyVars>>

\* Subscriber::on_event panics at line 137: nothing catches it, the task's
\* future is dropped where it stands, and with it what it owns: the permit
\* (released by its Drop), the message and the bus clone.  Lines 140-148 are
\* not run.
HandlerPanic(e) ==
    /\ task[e].pc = "await"
    /\ permits' = permits + 1
    /\ releases' = [releases EXCEPT ![e] = @ + 1]
    /\ task' = [task EXCEPT ![e].pc = "dead"]
    /\ UNCHANGED <<limit, queue, loopVars, registryVars, callerVars, nextEvent,
                   metricVars, flag, orderVars, regAt, invoked, resultVars>>

\* The runtime drops the spawned future (lines 124-149) at one of its await
\* points, before its first poll or while it awaits a handler: what the
\* future owns is dropped with it, the permit included.
TaskCancel(e) ==
    /\ task[e].pc \in {"start", "await"}
    /\ permits' = permits + 1
    /\ releases' = [releases EXCEPT ![e] = @ + 1]
    /\ task' = [task EXCEPT ![e].pc = "dead"]
    /\ UNCHANGED <<limit, queue, loopVars, registryVars, callerVars, nextEvent,
                   metricVars, flag, orderVars, regAt, invoked, resultVars>>

\* An early return on an empty snapshot (`if subscribers.is_empty() { return; }`
\* after line 135): lines 140-146 are skipped, the permit is dropped.
TaskDecHandlingEarlyReturn(e) ==
    /\ task[e].pc = "iter"
    /\ task[e].rem = {}
    /\ IF task[e].snap = {}
       THEN /\ task' = [task EXCEPT ![e].pc = "release"]
            /\ UNCHANGED handling
       ELSE /\ task' = [task EXCEPT ![e].pc = "inc_handled"]
            /\ handling' = handling - 1
    /\ UNCHANGED <<limit, permits, queue, loopVars, registryVars, callerVars,
                   nextEvent, pending, published, handled, flag, historyVars>>

\* EventBus::handle, lines 140-143: after the last subscriber the timer is
\* observed and the handling gauge goes down.
TaskDecHandling(e) ==
    /\ task[e].pc = "iter"
    /\ task[e].rem = {}
    /\ handling' = handling - 1
    /\ task' = [task EXCEPT ![e].pc = "inc_handled"]
    /\ UNCHANGED <<limit, permits, queue, loopVars, registryVars, callerVars,
                   nextEvent, pending, published, handled, flag, historyVars>>

\* The wrong metric at lines 144-146: the handling gauge instead of the
\* handled counter.
TaskIncHandledWrongMetric(e) ==
    /\ task[e].pc = "inc_handled"
    /\ handling' = handling + 1
    /\ task' = [task EXCEPT ![e].pc = "release"]
    /\ UNCHANGED <<limit, permits, queue, loopVars, registryVars, callerVars,
                   nextEvent, pending, handled, published, flag, historyVars>>

\* EventBus::handle, lines 144-146: the handled counter goes up.
TaskIncHandled(e) ==
    /\ task[e].pc = "inc_handled"
    /\ handled' = handled + 1
    /\ task' = [task EXCEPT ![e].pc = "release"]
    /\ UNCHANGED <<limit, permits, queue, loopVars, registryVars, callerVars,
                   nextEvent, pending, handling, published, flag, historyVars>>

\* EventBus::handle, line 148: drop(concurrency_guarder) gives the permit
\* back, and the task ends.
TaskRelease(e) ==
    /\ task[e].pc = "release"
    /\ permits' = permits + 1
    /\ releases' = [releases EXCEPT ![e] = @ + 1]
    /\ task' = [task EXCEPT ![e].pc = "done"]
    /\ UNCHANGED <<limit, queue, loopVars, registryVars, callerVars, nextEvent,
                   metricVars, flag, orderVars, regAt, invoked, resultVars>>

\* ------------------------------------------------------ specifications
CallerStep ==
    \/ PublishSend
    \/ PublishIncPending
    \/ PublishIncPublished
    \/ SubscribeFetchAdd
    \/ \E idx \in SubIds : SubscribeInsert(idx)

LoopStep == LoopRecv \/ LoopAcquire \/ LoopSpawn

\* The steps of a dispatch task whose handlers return.
TaskRun(e) ==
    \/ TaskIncHandling(e)
    \/ TaskDecPending(e)
    \/ TaskSnapshot(e)
    \/ \E s \in SubIds : HandlerInvoke(e, s)
    \/ HandlerDone(e)
    \/ TaskDecHandling(e)
    \/ TaskIncHandled(e)
    \/ TaskRelease(e)

TaskStep(e) == TaskRun(e) \/ HandlerPanic(e)

\* The bus in use: callers that keep their handles, handlers that return or panic.
Next == CallerStep \/ LoopStep \/ \E e \in Events : TaskStep(e)

Spec == Init /\ [][Next]_vars

\* The same, with callers that may drop their handles.
NextDrop == Next \/ DropHandle

SpecDrop == Init /\ [][NextDrop]_vars

\* The same as Spec, with a runtime that may cancel dispatch tasks.
NextCancel == Next \/ \E e \in Events : TaskCancel(e)

SpecCancel == Init /\ [][NextCancel]_vars

\* Handlers that always return, and a runtime that keeps polling the loop
\* and every spawned task (tokio's scheduler is fair to runnable tasks).
\* Callers are under no obligation to go on.
NextLive == CallerStep \/ LoopStep \/ \E e \in Events : TaskRun(e)

Fairness ==
    /\ WF_vars(LoopStep)
    /\ \A e \in Events : WF_vars(TaskRun(e))

LiveSpec == Init /\ [][NextLive]_vars /\ Fairness

\* =============================================================== claims
IsPrefix(a, b) == Len(a) <= Len(b) /\ SubSeq(b, 1, Len(a)) = a

EndedPcs == {"done", "dead"}

\* C1: with concurrency_limit = K >= 1, the dispatch tasks that hold a permit
\* not yet given back, plus the permit the loop holds for the task it is
\* about to spawn, are never more than K: the loop spawns a task only while
\* fewer than K are running, so the (K+1)-th waits for a release.
C1_ConcurrencyBound ==
    limit >= 1 => Cardinality(LiveTasks) + LoopHolds <= limit

\* K = 2 tasks run, and the loop waits at acquire with the third event.
C1_Witness ==
    /\ limit = 2
    /\ Cardinality(LiveTasks) = 2
    /\ loopPc = "acquire"
    /\ loopMsg = 3
    /\ permits = 0

\* C2: events are numbered in the order their sends completed; the loop
\* receives them in that order, and spawns their dispatch tasks in the order
\* it received them, whatever the limit K >= 1.
C2_FifoDispatchStart ==
    limit >= 1 =>
        /\ \A i \in DOMAIN dequeued : dequeued[i] = i
        /\ IsPrefix(launched, dequeued)
        /\ \A i \in DOMAIN queue : queue[i] = Len(dequeued) + i

\* With K = 2 the later event's task has ended while the earlier one's runs.
C2_Witness ==
    /\ limit = 2
    /\ launched = <<1, 2>>
    /\ task[2].pc = "done"
    /\ task[1].pc \in LivePcs

\* C3: every event whose publish has returned Ok is in the end dispatched:
\* its task has run to its end and has called every subscriber of its
\* snapshot.  (An event is sent by a publish that has returned when it is
\* sent and no caller stands inside publish.)
Dispatched(e) == task[e].pc = "done" /\ invoked[e] = task[e].snap

Accepted(e) == e < nextEvent /\ inPubPending = 0 /\ inPubPublished = 0

C3_NoLoss ==
    \A e \in Events : Accepted(e) ~> Dispatched(e)

\* The same for the buses EventBus::new is meant to build: limit >= 1.
C3_NoLossPositiveLimit ==
    \A e \in Events : (limit >= 1 /\ Accepted(e)) ~> Dispatched(e)

\* C4: the permit taken for an event is given back exactly once when its
\* dispatch task ends, however it ends (line 148, a handler's panic, the
\* runtime dropping the task), and not before: the permits available are
\* the limit less those of the running tasks and the one the loop holds.
C4_PermitReleasedOnce ==
    /\ permits = limit - Cardinality(LiveTasks) - LoopHolds
    /\ \A e \in Events :
          /\ releases[e] <= 1
          /\ (task[e].pc \in EndedPcs) <=> (releases[e] = 1)
    /\ (LiveTasks = {} /\ LoopHolds = 0) => permits = limit

\* One task was dropped before its first poll, one ended in a handler, one
\* ran to line 148, and every permit is back.
C4_Witness ==
    /\ limit >= 1
    /\ \E e \in Events : task[e].pc = "dead" /\ task[e].snap = {}
    /\ \E e \in Events : task[e].pc = "dead" /\ invoked[e] # {}
    /\ \E e \in Events : task[e].pc = "done"
    /\ LiveTasks = {}
    /\ LoopHolds = 0
    /\ permits = limit

\* C5: whatever the limiter's state, a caller that calls publish can send
\* (the event is appended to the queue) and can then take its two metric
\* steps: no step of publish waits for a permit.
C5_PublishNeverWaits ==
    /\ (IdleCallers > 0 /\ Calls < MaxCalls /\ ~IsClosed) =>
          ENABLED (PublishSend /\ queue' = Append(queue, nextEvent))
    /\ inPubPending > 0 => ENABLED PublishIncPending
    /\ inPubPublished > 0 => ENABLED PublishIncPublished

\* The only permit is held by a running task, the loop waits at acquire
\* with the next event, and two more events have been sent since: the queue
\* is deeper than the limit.
C5_Witness ==
    /\ limit = 1
    /\ permits = 0
    /\ Cardinality(LiveTasks) = 1
    /\ loopPc = "acquire"
    /\ Len(queue) = 2
    /\ returnedOk = 4

\* C6: once every caller has dropped its handle, the loop, waiting at recv
\* on the empty queue, can go on: recv returns the channel's closing and the
\* loop ends.  (Stated for the buses with limit >= 1, the others never
\* dispatch at all.)
AllHandlesDropped == droppedHandles = Cardinality(Callers)

C6_LoopExitsWhenHandlesDropped ==
    (limit >= 1 /\ AllHandlesDropped /\ loopPc = "recv" /\ queue = <<>>)
        => ENABLED LoopRecv

\* C7: publish returns Err only on a closed channel, and then changes
\* nothing; each publish that returns Ok has sent one event and has added
\* one to the published counter and one to the pending gauge (which each
\* dispatch task that has passed lines 131-133 has taken one from).
PastDecPending ==
    {e \in Events : task[e].pc \notin {"none", "start", "dec_pending"}}

C7_PublishResult ==
    /\ returnedErr > 0 => IsClosed
    /\ published = returnedOk
    /\ nextEvent - 1 = returnedOk + inPubPending + inPubPublished
    /\ Len(queue) + Len(dequeued) = nextEvent - 1
    /\ pending = returnedOk + inPubPublished - Cardinality(PastDecPending)

\* Two publishes have returned Ok, one caller has dropped its handle since.
C7_Witness ==
    /\ returnedOk = 2
    /\ published = 2
    /\ pending = 1
    /\ droppedHandles = 1

\* C8: no bus is built with concurrency_limit = 0: nothing can be called on
\* it and no dispatch loop runs for it.
C8_ZeroLimitRejected ==
    limit = 0 => (Calls = 0 /\ loopPc = "exited")

\* C9: one subscriber, registered before the first publish, whose handler
\* always returns; N publishes have returned Ok.  Once the dispatches have
\* settled, the subscriber has been called N times and both counters read N.
SingleSubscriber ==
    /\ key_counter = 1
    /\ subscribers = {0}
    /\ \A e \in Events : e < nextEvent => regAt[e] = {0}

NoPanic == \A e \in Events : task[e].pc # "dead"

AllReturned == inPubPending = 0 /\ inPubPublished = 0

C9_Counted ==
    /\ flag[0] = returnedOk
    /\ handled = returnedOk
    /\ published = returnedOk

\* Settled, as the claim words it: the queue is empty and no dispatch task
\* is live.  (Stated for the buses with limit >= 1, on which every event
\* is dispatched in the end.)
C9_SettledAsWorded ==
    (limit >= 1 /\ SingleSubscriber /\ NoPanic /\ AllReturned /\ queue = <<>>
        /\ LiveTasks = {})
        => C9_Counted

\* Settled: besides, the loop holds no event it has received and not yet
\* spawned a task for.
C9_Settled ==
    (SingleSubscriber /\ NoPanic /\ AllReturned /\ queue = <<>> /\ LiveTasks = {}
        /\ loopMsg = NoEvent)
        => C9_Counted

\* N = 3.
C9_Witness ==
    /\ SingleSubscriber /\ NoPanic /\ AllReturned /\ queue = <<>> /\ LiveTasks = {}
    /\ loopMsg = NoEvent
    /\ returnedOk = 3
    /\ flag[0] = 3

\* C10: a subscriber whose insert was complete when an event was sent is in
\* that event's snapshot, and has been called for the event by the time its
\* dispatch task is through with the handlers.
PastSnapshot == {e \in Events : task[e].pc \in {"iter", "await", "inc_handled",
                                                "release", "done", "dead"}}

PastHandlers == {e \in Events : task[e].pc \in {"inc_handled", "release", "done"}}

C10_RegisteredBeforePublish ==
    \A e \in Events :
        /\ e \in PastSnapshot => regAt[e] \subseteq task[e].snap
        /\ e \in PastSnapshot => regAt[e] \subseteq (invoked[e] \cup task[e].rem)
        /\ e \in PastHandlers => regAt[e] \subseteq invoked[e]

\* Subscriber 0 registered between the sends of events 1 and 2; event 2 has
\* been dispatched to it while event 1 is still being dispatched.
C10_Witness ==
    /\ regAt[1] = {}
    /\ regAt[2] = {0}
    /\ task[2].pc = "done"
    /\ 0 \in invoked[2]
    /\ task[1].pc \in LivePcs

\* C11: an event dispatched on an empty registry is no error: its publish
\* returned Ok, its task was spawned with a permit, calls nobody, never fails,
\* and goes through the whole bracket: the handling gauge counts it from line
\* 128 to line 141, the handled counter counts it from line 144 on, and its
\* permit is given back when it ends.
EmptyDispatch(e) == e \in PastSnapshot /\ task[e].snap = {}

HandlingTasks ==
    {e \in Events : task[e].pc \in {"dec_pending", "snapshot", "iter", "await"}}

HandledTasks == {e \in Events : task[e].pc \in {"release", "done"}}

PanickedTasks == {e \in Events : task[e].pc = "dead"}

C11_EmptyDispatchBracket ==
    /\ \A e \in Events : EmptyDispatch(e) =>
          /\ task[e].pc \in {"iter", "inc_handled", "release", "done"}
          /\ invoked[e] = {}
          /\ \E i \in DOMAIN launched : launched[i] = e
          /\ task[e].pc = "done" => releases[e] = 1
    /\ handled = Cardinality(HandledTasks)
    /\ handling = Cardinality(HandlingTasks \cup PanickedTasks)
    /\ returnedErr = 0

\* One event, published and dispatched before anyone subscribed.
C11_Witness ==
    /\ limit >= 1
    /\ key_counter = 0
    /\ returnedOk = 1
    /\ task[1].pc = "done"
    /\ task[1].snap = {}
    /\ handled = 1
    /\ handling = 0
    /\ permits = limit

\* C12: a handler's failure stops neither the rest of its dispatch nor the
\* loop: a dispatch task that has ended, in whatever way, has called every
\* subscriber of its snapshot, and the loop is not held up by it (its permit
\* is back).
C12_FailureContained ==
    \A e \in Events :
        task[e].pc \in EndedPcs =>
            /\ invoked[e] = task[e].snap
            /\ releases[e] = 1

\* C13: the bookkeeping of a dispatch is done even when a handler fails:
\* once the bus has settled (every publish returned, queue empty, the loop
\* holding nothing, no task live) the handling gauge reads 0 and the handled
\* counter reads the number of events dispatched.
Settled ==
    /\ AllReturned
    /\ queue = <<>>
    /\ loopMsg = NoEvent
    /\ LiveTasks = {}

C13_BookkeepingOnFailure ==
    Settled => (handling = 0 /\ handled = Len(launched))

\* C14: with concurrency_limit = 1 the dispatches are serialized in publish
\* order: an event's task exists (and so calls handlers) only when the task
\* of every event sent before it has ended and given its permit back, so
\* the handler calls of an earlier event all come before those of a later
\* one; and once two publishes have been dispatched by handlers that return,
\* handled reads 2.
Spawned(e) == task[e].pc # "none"

C14_SerializedAtLimitOne ==
    limit = 1 =>
        /\ Cardinality(LiveTasks) <= 1
        /\ \A e \in Events : Spawned(e) =>
              \A d \in Events : d < e =>
                  /\ task[d].pc \in EndedPcs
                  /\ releases[d] = 1
        /\ (Settled /\ NoPanic) => handled = returnedOk

\* Publish A then B to one subscriber whose handler returns: both dispatches
\* are over, the subscriber was called twice, and handled = 2.
C14_Witness ==
    /\ limit = 1
    /\ regAt[1] = {0}
    /\ regAt[2] = {0}
    /\ Settled
    /\ NoPanic
    /\ returnedOk = 2
    /\ task[1].pc = "done"
    /\ task[2].pc = "done"
    /\ flag[0] = 2
    /\ handled = 2

\* C15: whatever the interleaving of subscribe calls with each other and
\* with dispatches, the ids handed out are distinct and never reused (the
\* ids registered and the ids of the subscribes under way are disjoint and
\* together are exactly 0 .. key_counter - 1), no registration is lost (n
\* completed subscribes leave n entries), and the registry only grows.
CompletedSubscribes == key_counter - Cardinality(inSubInsert)

C15_RegistryState ==
    /\ subscribers \cap inSubInsert = {}
    /\ subscribers \cup inSubInsert = 0..(key_counter - 1)
    /\ Cardinality(subscribers) = CompletedSubscribes

C15_RegistryStep ==
    /\ subscribers \subseteq subscribers'
    /\ key_counter' >= key_counter
    /\ \A idx \in inSubInsert' \ inSubInsert :
          idx \notin subscribers /\ idx = key_counter

C15_UniqueIdsNoLostRegistration ==
    [](C15_RegistryState) /\ [][C15_RegistryStep]_vars

\* Three subscribes by two callers: ids 0 and 2 are registered, the
\* subscribe that took id 1 has not inserted yet, and a dispatch is iterating
\* the snapshot it took when only id 0 was registered.
C15_Witness ==
    /\ subscribers = {0, 2}
    /\ inSubInsert = {1}
    /\ \E e \in Events : task[e].pc \in {"iter", "await"} /\ task[e].snap = {0}

\* C16: the subscribers called for an event are those of the registry at the
\* step its dispatch task takes the snapshot (line 135), not those of the
\* registry when the event was sent: the snapshot step copies the registry
\* as it then is, later steps never change the copy, only subscribers of the
\* copy are called, and a task that is through with the handlers has called
\* all of them.
C16_SnapshotState ==
    \A e \in Events :
        /\ invoked[e] \subseteq task[e].snap
        /\ e \in PastHandlers => invoked[e] = task[e].snap

C16_SnapshotStep ==
    \A e \in Events :
        /\ (task[e].pc = "snapshot" /\ task'[e].pc # "snapshot")
              => task'[e].snap = subscribers
        /\ e \in PastSnapshot => task'[e].snap = task[e].snap

Hanging == {e \in Events : task[e].pc = "await"}

Stalled == limit >= 1 /\ Cardinality(Hanging) = limit

OutOfReach == Len(queue) + (IF loopMsg # NoEvent THEN 1 ELSE 0)

C17_StalledState ==
    Stalled =>
        /\ permits = 0
        /\ loopPc \in {"recv", "acquire"}
        /\ loopPc = "acquire" => loopMsg # NoEvent
        /\ ~ ENABLED LoopAcquire
        /\ ~ ENABLED LoopSpawn
        /\ (IdleCallers > 0 /\ Calls < MaxCalls) =>
              ENABLED (PublishSend /\ queue' = Append(queue, nextEvent))
        /\ inPubPending > 0 => ENABLED PublishIncPending
        /\ inPubPublished > 0 => ENABLED (PublishIncPublished /\ published' = published + 1)

C17_StalledStep ==
    (Stalled /\ Hanging' = Hanging) =>
        /\ permits' = 0
        /\ launched' = launched
        /\ loopPc = "acquire" => (loopPc' = "acquire" /\ loopMsg' = loopMsg)
        /\ OutOfReach' >= OutOfReach
        /\ published' >= published

C17_HangingHandlersStallBus ==
    [](C17_StalledState) /\ [][C17_StalledStep]_vars

\* K = 1: the task of event 1 waits in its handler, the loop waits at
\* acquire with event 2, event 3 is in the queue, and all three publishes
\* have returned Ok.
C17_Witness ==
    /\ limit = 1
    /\ task[1].pc = "await"
    /\ loopPc = "acquire"
    /\ loopMsg = 2
    /\ queue = <<3>>
    /\ permits = 0
    /\ returnedOk = 3
    /\ published = 3

\* C18: the loop has at most one event in hand: the events received and not
\* yet spawned are none, or the one the loop holds; so the events that have
\* left the queue and whose dispatch has not ended are at most
\* concurrency_limit + 1; and every event sent is in exactly one place: the
\* queue, the loop's hand, or a dispatch task.
InQueue == {queue[i] : i \in DOMAIN queue}

InHand == IF loopMsg = NoEvent THEN {} ELSE {loopMsg}

Sent == 1..(nextEvent - 1)

OutUnfinished == InHand \cup LiveTasks

C18_OneInHand ==
    /\ Len(dequeued) - Len(launched) = Cardinality(InHand)
    /\ Cardinality(InHand) <= 1
    /\ Cardinality(OutUnfinished) <= limit + 1
    /\ InHand \cap LiveTasks = {}
    /\ InQueue \cap InHand = {}
    /\ \A e \in InQueue \cup InHand : ~ Spawned(e)
    /\ Len(queue) = Cardinality(InQueue)
    /\ \A e \in Events :
          e \in Sent <=> (e \in InQueue \/ e \in InHand \/ Spawned(e))

\* K = 2: two tasks run, the loop waits with event 3 in hand, event 4 is
\* still in the queue: K + 1 events are out of the queue and unfinished.
C18_Witness ==
    /\ limit = 2
    /\ Cardinality(LiveTasks) = 2
    /\ InHand = {3}
    /\ queue = <<4>>
    /\ Cardinality(OutUnfinished) = 3

\* C19: as the test reads it: once the publish has returned and the single
\* subscriber's own counter reads 1, the handled counter and the published
\* counter read 1; in general, with no caller inside publish, the handled
\* counter is not behind the number of events whose handlers (there being
\* some) have all returned.
HandlersAllReturned ==
    {e \in Events : /\ task[e].snap # {}
                    /\ \/ task[e].pc \in {"inc_handled", "release", "done"}
                       \/ task[e].pc = "iter" /\ task[e].rem = {}}

C19_HandledNotBehindHandlers ==
    /\ (limit >= 1 /\ SingleSubscriber /\ AllReturned /\ returnedOk = 1
           /\ flag[0] = 1)
          => (handled = 1 /\ published = 1)
    /\ AllReturned => handled >= Cardinality(HandlersAllReturned)

\* C20: the pending gauge is never negative: each event's increment
\* (publish, lines 163-165) comes before its decrement (dispatch task, lines
\* 131-133).
C20_PendingNeverNegative ==
    pending >= 0

====
